---- MODULE Spec2Model ----
(***************************************************************************)
(* FableWeaver: the book pagination of BookLayout.tsx, the spread          *)
(* navigator that reads it, and the story state of App.tsx that feeds it.  *)
(*                                                                         *)
(* A JavaScript string is modelled as a sequence of one-character strings, *)
(* so that split, trim, indexOf, substring and the regular expressions of  *)
(* the source are computed character by character.                         *)
(***************************************************************************)
EXTENDS Integers, Sequences, FiniteSets, TLC

\* ------------------------------------------------------------------------
\* Strings
\* ------------------------------------------------------------------------

\* \s of the regular expressions, and the characters String.trim removes.
IsSpace(ch) == ch \in {" ", "\n", "\t", "\r"}

SetMin(S) == CHOOSE x \in S : \A y \in S : x <= y

SetMax(S) == 0 - SetMin({0 - x : x \in S})

\* s.trim()
Trim(s) ==
    LET keep == {i \in 1..Len(s) : ~IsSpace(s[i])}
    IN  IF keep = {} THEN <<>> ELSE SubSeq(s, SetMin(keep), SetMax(keep))

\* s.startsWith(p)
StartsWith(s, p) == Len(s) >= Len(p) /\ SubSeq(s, 1, Len(p)) = p

\* s.indexOf(ch), 1-based; 0 stands for the -1 of JavaScript.
IndexOf(s, ch) ==
    LET at == {i \in 1..Len(s) : s[i] = ch}
    IN  IF at = {} THEN 0 ELSE SetMin(at)

\* The regular expression /\n##\s+/ matches at position i of s.
MarkerAt(s, i) ==
    /\ i + 3 <= Len(s)
    /\ s[i] = "\n" /\ s[i + 1] = "#" /\ s[i + 2] = "#"
    /\ IsSpace(s[i + 3])

\* The last position of the (greedy) match of /\n##\s+/ that starts at i.
MarkerEnd(s, i) ==
    LET stop == {j \in (i + 3)..Len(s) : ~IsSpace(s[j])}
    IN  IF stop = {} THEN Len(s) ELSE SetMin(stop) - 1

RECURSIVE SplitMarkersFrom(_, _)
\* s.split(/\n##\s+/), from position p on.
SplitMarkersFrom(s, p) ==
    LET ms == {i \in p..Len(s) : MarkerAt(s, i)}
    IN  IF ms = {} THEN << SubSeq(s, p, Len(s)) >>
        ELSE LET m == SetMin(ms)
             IN  << SubSeq(s, p, m - 1) >> \o SplitMarkersFrom(s, MarkerEnd(s, m) + 1)

SplitMarkers(s) == SplitMarkersFrom(s, 1)

\* title.replace(/^#+\s*/, '')
StripHashes(t) ==
    IF Len(t) = 0 \/ t[1] # "#" THEN t
    ELSE LET rest == {i \in 1..Len(t) : t[i] # "#"}
             h    == IF rest = {} THEN Len(t) ELSE SetMin(rest) - 1
             body == {i \in (h + 1)..Len(t) : ~IsSpace(t[i])}
         IN  IF body = {} THEN <<>> ELSE SubSeq(t, SetMin(body), Len(t))

RECURSIVE SplitSpaces(_)
\* body.split(' '): the tokens between single spaces, in order; "" gives one
\* empty token. The string is cut at the first space at or after its middle
\* (at its last space when there is none), and the halves are split alike.
SplitSpaces(s) ==
    LET sp == {i \in 1..Len(s) : s[i] = " "}
    IN  IF sp = {} THEN << s >>
        ELSE LET hi == {i \in sp : 2 * i >= Len(s)}
                 m  == IF hi = {} THEN SetMax(sp) ELSE SetMin(hi)
             IN  SplitSpaces(SubSeq(s, 1, m - 1)) \o SplitSpaces(SubSeq(s, m + 1, Len(s)))

RECURSIVE JoinSpaces(_)
\* chunk.join(' '), computed on the two halves of the chunk.
JoinSpaces(ws) ==
    IF Len(ws) = 0 THEN <<>>
    ELSE IF Len(ws) = 1 THEN ws[1]
    ELSE LET h == Len(ws) \div 2
         IN  JoinSpaces(SubSeq(ws, 1, h)) \o <<" ">> \o JoinSpaces(SubSeq(ws, h + 1, Len(ws)))

\* lastWord.match(/[.!?]"?$/)
EndsSentence(w) ==
    LET n == Len(w)
    IN  \/ n >= 1 /\ w[n] \in {".", "!", "?"}
        \/ n >= 2 /\ w[n] = "\"" /\ w[n - 1] \in {".", "!", "?"}

\* ------------------------------------------------------------------------
\* Pagination (BookLayout.tsx, the pages memo)
\* ------------------------------------------------------------------------

WORDS_PER_PAGE == 130

\* One element of rawSections.map(...): the section of rawSections[idx + 1]
\* (idx is the 0-based index of the source). The null the source returns for
\* an empty first element is the record with isNull set.
SectionOf(node, sectionText, idx) ==
    IF idx = 0 /\ Trim(sectionText) = <<>>
    THEN [title |-> <<>>, body |-> <<>>, isNewChapter |-> FALSE, isNull |-> TRUE]
    ELSE LET firstNewLine == IndexOf(sectionText, "\n")
             isNewChapter ==
                 idx > 0 \/ (idx = 0 /\ StartsWith(Trim(node.content), <<"#", "#">>))
             title == IF isNewChapter
                      THEN IF firstNewLine # 0
                           THEN Trim(SubSeq(sectionText, 1, firstNewLine - 1))
                           ELSE Trim(sectionText)
                      ELSE node.chapterTitle
             body  == IF isNewChapter
                      THEN IF firstNewLine # 0
                           THEN Trim(SubSeq(sectionText, firstNewLine, Len(sectionText)))
                           ELSE <<>>
                      ELSE sectionText
         IN  [title |-> StripHashes(title), body |-> body, isNewChapter |-> isNewChapter,
              isNull |-> FALSE]

\* The filter that follows the map: nulls and empty continuations are dropped.
KeepSection(s) == ~s.isNull /\ (Len(s.body) > 0 \/ s.isNewChapter)

\* The sections of one fragment, in source order.
Sections(node) ==
    LET rawContent  == <<"\n">> \o node.content
        rawSections == SplitMarkers(rawContent)
        mapped      == [k \in 1..Len(rawSections) |-> SectionOf(node, rawSections[k], k - 1)]
    IN  SelectSeq(mapped, KeepSection)

\* The page limit in force for the chunk being filled.
PageLimit(isFirstPageOfSection, section) ==
    IF isFirstPageOfSection /\ section.isNewChapter
    THEN WORDS_PER_PAGE - 50 ELSE WORDS_PER_PAGE

\* ClosesPage with the overrun allowed one word more.
ClosesPageOneLater(chunkLen, limit, lastWord) ==
    /\ chunkLen >= limit
    /\ (EndsSentence(lastWord) \/ chunkLen > limit + 21)

\* The test that closes a page inside the loop over the words.
ClosesPage(chunkLen, limit, lastWord) ==
    /\ chunkLen >= limit
    /\ (EndsSentence(lastWord) \/ chunkLen > limit + 20)

\* LoopPage without the word that closes the page.
LoopPageDropsLastWord(node, section, sIdx, st) ==
    [id             |-> node.id \o "-sec" \o ToString(sIdx)
                                \o "-pg" \o ToString(st.globalPageCount),
     type           |-> "TEXT",
     content        |-> JoinSpaces(SubSeq(st.currentChunk, 1, Len(st.currentChunk) - 1)),
     pageNumber     |-> st.globalPageCount,
     chapterTitle   |-> section.title,
     isChapterStart |-> st.isFirstPageOfSection /\ section.isNewChapter]

\* A page closed inside the loop.
LoopPage(node, section, sIdx, st) ==
    [id             |-> node.id \o "-sec" \o ToString(sIdx)
                                \o "-pg" \o ToString(st.globalPageCount),
     type           |-> "TEXT",
     content        |-> JoinSpaces(st.currentChunk),
     pageNumber     |-> st.globalPageCount,
     chapterTitle   |-> section.title,
     isChapterStart |-> st.isFirstPageOfSection /\ section.isNewChapter]

RECURSIVE PackWords(_, _, _, _, _, _)
\* for (let i = 0; i < words.length; i++) { ... }, for the words from position
\* `from` on, entered with an empty currentChunk. The chunk that holds
\* words[from..i] closes at the first i that passes the test of the source;
\* the loop then goes on from i + 1 with an empty chunk. The words left when
\* no such i exists stay in currentChunk.
PackWords(node, section, sIdx, words, from, st) ==
    LET limit  == PageLimit(st.isFirstPageOfSection, section)
        closes == {i \in from..Len(words) : ClosesPage(i - from + 1, limit, words[i])}
    IN  IF closes = {}
        THEN [st EXCEPT !.currentChunk = SubSeq(words, from, Len(words))]
        ELSE LET i      == SetMin(closes)
                 filled == [st EXCEPT !.currentChunk = SubSeq(words, from, i)]
             IN  PackWords(node, section, sIdx, words, i + 1,
                     [generatedPages       |-> Append(st.generatedPages,
                                                      LoopPage(node, section, sIdx, filled)),
                      globalPageCount      |-> st.globalPageCount + 1,
                      currentChunk         |-> <<>>,
                      isFirstPageOfSection |-> FALSE])

\* The choices field of the final page of a section: a page whose choices
\* are undefined has no choices field.
EndChoices(node, isLastSection) ==
    IF isLastSection THEN [choices |-> node.choices] ELSE <<>>

\* The test for the page that follows the loop.
NeedsEndPage(section, st) ==
    Len(st.currentChunk) > 0 \/ (st.isFirstPageOfSection /\ section.isNewChapter)

\* EndPage with the chapter flag of the section, whatever page it is.
EndPageStartsChapter(node, section, sIdx, nSections, st) ==
    [id             |-> node.id \o "-sec" \o ToString(sIdx) \o "-end",
     type           |-> "TEXT",
     content        |-> JoinSpaces(st.currentChunk),
     pageNumber     |-> st.globalPageCount,
     chapterTitle   |-> section.title,
     isChapterStart |-> section.isNewChapter]
    @@ EndChoices(node, sIdx = nSections - 1)

\* The page pushed after the loop.
EndPage(node, section, sIdx, nSections, st) ==
    [id             |-> node.id \o "-sec" \o ToString(sIdx) \o "-end",
     type           |-> "TEXT",
     content        |-> JoinSpaces(st.currentChunk),
     pageNumber     |-> st.globalPageCount,
     chapterTitle   |-> section.title,
     isChapterStart |-> st.isFirstPageOfSection /\ section.isNewChapter]
    @@ EndChoices(node, sIdx = nSections - 1)

\* The body of sections.forEach: acc is [generatedPages, globalPageCount].
PackSection(node, section, sIdx, nSections, acc) ==
    LET words == SplitSpaces(section.body)
        st    == PackWords(node, section, sIdx, words, 1,
                     [generatedPages       |-> acc.generatedPages,
                      globalPageCount      |-> acc.globalPageCount,
                      currentChunk         |-> <<>>,
                      isFirstPageOfSection |-> TRUE])
    IN  IF NeedsEndPage(section, st)
        THEN [generatedPages  |-> Append(st.generatedPages,
                                         EndPage(node, section, sIdx, nSections, st)),
              globalPageCount |-> st.globalPageCount + 1]
        ELSE [generatedPages  |-> st.generatedPages,
              globalPageCount |-> st.globalPageCount]

RECURSIVE PackSections(_, _, _, _)
\* sections.forEach, the first k sections (sIdx 0..k-1).
\* globalPageCount starts at 1 and is only incremented: the test on it holds,
\* and has the earlier sections laid out before this one, as forEach does.
PackSections(node, secs, k, acc) ==
    IF k = 0 THEN acc
    ELSE LET before == PackSections(node, secs, k - 1, acc)
         IN  IF before.globalPageCount >= 1
             THEN PackSection(node, secs[k], k - 1, Len(secs), before)
             ELSE before

\* HasVisualPage without the test on the fragment's index and the game mode.
HasVisualPageAnyFragment(node, nodeIndex, gameMode) ==
    node.backgroundImagePrompt # <<>>

\* The condition under which a fragment gets an illustration page; an absent
\* backgroundImagePrompt is the empty string, which is as falsy.
HasVisualPage(node, nodeIndex, gameMode) ==
    node.backgroundImagePrompt # <<>> /\ (nodeIndex = 0 \/ gameMode = "INTERACTIVE")

VisualPage(node, acc) ==
    [id             |-> node.id \o "-visual",
     type           |-> "FULL_IMAGE",
     content        |-> <<>>,
     imagePrompt    |-> node.backgroundImagePrompt,
     pageNumber     |-> acc.globalPageCount,
     chapterTitle   |-> node.chapterTitle]

\* PushVisual without the increment of globalPageCount.
PushVisualSameNumber(node, nodeIndex, gameMode, acc) ==
    IF HasVisualPage(node, nodeIndex, gameMode)
    THEN [generatedPages  |-> Append(acc.generatedPages, VisualPage(node, acc)),
          globalPageCount |-> acc.globalPageCount]
    ELSE acc

\* acc after the illustration page of the fragment, if it has one.
PushVisual(node, nodeIndex, gameMode, acc) ==
    IF HasVisualPage(node, nodeIndex, gameMode)
    THEN [generatedPages  |-> Append(acc.generatedPages, VisualPage(node, acc)),
          globalPageCount |-> acc.globalPageCount + 1]
    ELSE acc

\* The body of effectiveHistory.forEach for one fragment.
PackNode(node, nodeIndex, gameMode, acc) ==
    LET secs == Sections(node)
    IN  PackSections(node, secs, Len(secs), PushVisual(node, nodeIndex, gameMode, acc))

RECURSIVE PackHistory(_, _, _)
\* effectiveHistory.forEach, the first k fragments.
PackHistory(history, gameMode, k) ==
    IF k = 0 THEN [generatedPages |-> <<>>, globalPageCount |-> 1]
    ELSE LET before == PackHistory(history, gameMode, k - 1)
         IN  IF before.globalPageCount >= 1
             THEN PackNode(history[k], k - 1, gameMode, before)
             ELSE before

\* FillerPage with the title the sections start from.
FillerPageWithTitle(acc) ==
    [id             |-> "filler-end",
     type           |-> "TEXT",
     content        |-> <<>>,
     pageNumber     |-> acc.globalPageCount,
     chapterTitle   |-> <<"C", "o", "n", "t", "i", "n", "u", "e", "d">>]

FillerPage(acc) ==
    [id             |-> "filler-end",
     type           |-> "TEXT",
     content        |-> <<>>,
     pageNumber     |-> acc.globalPageCount,
     chapterTitle   |-> <<>>]

\* NeedsFiller with the parity test turned round.
NeedsFillerWrongParity(generatedPages) == Len(generatedPages) % 2 # 1

\* The filler page is pushed when the page count is odd.
NeedsFiller(generatedPages) == Len(generatedPages) % 2 # 0

\* The pages memo: the page sequence of a history in a game mode.
Paginate(history, gameMode) ==
    LET acc == PackHistory(history, gameMode, Len(history))
    IN  IF NeedsFiller(acc.generatedPages)
        THEN Append(acc.generatedPages, FillerPage(acc))
        ELSE acc.generatedPages


\* ------------------------------------------------------------------------
\* Spread navigator (BookLayout.tsx)
\* ------------------------------------------------------------------------

\* page.choices && page.choices.length > 0: the page shows choice buttons.
HasChoices(page) == "choices" \in DOMAIN page /\ Len(page.choices) > 0

\* currentNode={gameState.storyHistory[gameState.storyHistory.length - 1]}
CurrentNode(history) == history[Len(history)]

\* const effectiveHistory = storyHistory.length > 0 ? storyHistory : [currentNode]
EffectiveHistory(history) ==
    IF Len(history) > 0 THEN history ELSE << CurrentNode(history) >>

\* EffectIndex that goes to the last page and not to the spread that holds it.
EffectIndexLastPage(mode, pgs, index, historyLength) ==
    IF mode = "INTERACTIVE"
    THEN IF Len(pgs) > 0 THEN Len(pgs) - 1 ELSE 0
    ELSE IF historyLength = 1 /\ Len(pgs) > 2 /\ index = 0 THEN 0 ELSE index

\* The index the effect on [effectiveHistory.length, gameMode] leaves.
EffectIndex(mode, pgs, index, historyLength) ==
    IF mode = "INTERACTIVE"
    THEN IF Len(pgs) > 0 THEN ((Len(pgs) - 1) \div 2) * 2 ELSE 0
    ELSE IF historyLength = 1 /\ Len(pgs) > 2 /\ index = 0 THEN 0 ELSE index

\* The dependency test of that effect between two renders of the book.
EffectRuns(oldHistory, oldMode, newHistory, newMode) ==
    Len(EffectiveHistory(oldHistory)) # Len(EffectiveHistory(newHistory)) \/ oldMode # newMode

\* currentPageIndex after the render that follows a change of the game state.
\* The book exists in the GAME view only: entering that view mounts it with
\* index 0 and runs the effect; leaving it unmounts it.
RenderedIndex(oldView, oldHistory, oldMode, oldIndex, newView, newHistory, newMode, pgs) ==
    IF newView # "GAME" THEN 0
    ELSE IF oldView # "GAME"
    THEN EffectIndex(newMode, pgs, 0, Len(EffectiveHistory(newHistory)))
    ELSE IF EffectRuns(oldHistory, oldMode, newHistory, newMode)
    THEN EffectIndex(newMode, pgs, oldIndex, Len(EffectiveHistory(newHistory)))
    ELSE oldIndex

\* RenderedPages with a memo that looks at the length of the history only.
RenderedPagesByLength(oldView, oldHistory, oldMode, oldPages, newView, newHistory, newMode) ==
    IF newView # "GAME" THEN <<>>
    ELSE IF oldView = "GAME" /\ Len(oldHistory) = Len(newHistory) /\ oldMode = newMode
    THEN oldPages
    ELSE Paginate(EffectiveHistory(newHistory), newMode)

\* The pages memo of the mounted book: useMemo computes it anew when
\* effectiveHistory or gameMode changed, and when the book is mounted.
RenderedPages(oldView, oldHistory, oldMode, oldPages, newView, newHistory, newMode) ==
    IF newView # "GAME" THEN <<>>
    ELSE IF oldView = "GAME" /\ oldHistory = newHistory /\ oldMode = newMode THEN oldPages
    ELSE Paginate(EffectiveHistory(newHistory), newMode)

\* jumpToPage: the even index at or below the bookmark's index.
JumpTarget(index) == IF index % 2 = 0 THEN index ELSE index - 1

\* ------------------------------------------------------------------------
\* Characters (App.tsx)
\* ------------------------------------------------------------------------

\* SameName that takes an entry for the update's only when the roles agree too.
SameNameAndRole(c, update) ==
    /\ "name" \in DOMAIN update /\ c.name = update.name
    /\ "role" \in DOMAIN update /\ c.role = update.role

\* c.name === update.name, where an update without a name has name undefined.
SameName(c, update) == "name" \in DOMAIN update /\ c.name = update.name

\* update.name && update.role && update.affinity !== undefined
IsNewCharacter(update) ==
    /\ "name" \in DOMAIN update /\ update.name # ""
    /\ "role" \in DOMAIN update /\ update.role # ""
    /\ "affinity" \in DOMAIN update

\* ApplyUpdate that puts the update in the place of the entry it matches.
ApplyUpdateReplaces(newChars, update) ==
    LET found == {i \in 1..Len(newChars) : SameName(newChars[i], update)}
    IN  IF found # {}
        THEN [newChars EXCEPT ![SetMin(found)] = update]
        ELSE IF IsNewCharacter(update) THEN Append(newChars, update)
        ELSE newChars

\* The body of updates.forEach for one update.
ApplyUpdate(newChars, update) ==
    LET found == {i \in 1..Len(newChars) : SameName(newChars[i], update)}
    IN  IF found # {}
        THEN [newChars EXCEPT ![SetMin(found)] = update @@ @]
        ELSE IF IsNewCharacter(update) THEN Append(newChars, update)
        ELSE newChars

RECURSIVE updateCharacters(_, _)
updateCharacters(currentChars, updates) ==
    IF Len(updates) = 0 THEN currentChars
    ELSE updateCharacters(ApplyUpdate(currentChars, Head(updates)), Tail(updates))


\* ------------------------------------------------------------------------
\* Generation service (geminiService.ts)
\* ------------------------------------------------------------------------

\* data.id = `${lastNode.id}-${choiceId}` of continueStory.
ContinueNode(history, choiceId, data) ==
    [id |-> history[Len(history)].id \o "-" \o choiceId] @@ data

\* data.id = 'root' of startStory in INTERACTIVE mode.
RootNode(data) == [id |-> "root"] @@ data

StoryLength == 5000

\* const totalBatches = Math.max(1, Math.ceil(storyLength / wordsPerBatch))
TotalBatches(storyLength) ==
    LET c == (storyLength + 999) \div 1000 IN IF c < 1 THEN 1 ELSE c

\* The title startStory falls back on, `The ${genre} of ${protagonist}`.
DefaultTitle == <<"T", "h", "e">>

\* The accumulators of the batch loop of startStory before the first batch.
LinearStart ==
    [fullStoryContent |-> <<>>,
     finalStats       |-> [tension |-> 50, mystery |-> 50, romance |-> 50, hope |-> 50],
     finalCharUpdates |-> <<>>,
     firstImagePrompt |-> <<>>,
     overallTitle     |-> DefaultTitle,
     thrown           |-> FALSE]

\* LinearBatch that throws the error of any batch that fails.
LinearBatchThrowsAlways(a, result) ==
    IF a.thrown THEN a
    ELSE IF result.ok /\ "data" \notin DOMAIN result THEN a
    ELSE IF result.ok
    THEN LET data == result.data
             first == a.firstImagePrompt = <<>>
         IN  [fullStoryContent |->
                  a.fullStoryContent
                  \o (IF a.fullStoryContent # <<>> THEN <<"\n", "\n">> ELSE <<>>)
                  \o data.content,
              finalStats       |-> data.stats,
              finalCharUpdates |-> data.characterUpdates,
              firstImagePrompt |->
                  IF first
                  THEN IF data.backgroundImagePrompt # <<>>
                       THEN data.backgroundImagePrompt
                       ELSE <<"A", " ", "s", "c", "e", "n", "e">>
                  ELSE a.firstImagePrompt,
              overallTitle     |->
                  IF first /\ data.chapterTitle # <<>> THEN data.chapterTitle
                  ELSE a.overallTitle,
              thrown           |-> FALSE]
    ELSE [a EXCEPT !.thrown = TRUE]

\* One batch of the loop: `result` is [ok |-> TRUE, data |-> response] for a
\* response that parsed, [ok |-> TRUE] for a response without text, and
\* [ok |-> FALSE] for a request that failed or a text that did not parse.
LinearBatch(a, result) ==
    IF a.thrown THEN a
    ELSE IF result.ok /\ "data" \notin DOMAIN result THEN a
    ELSE IF result.ok
    THEN LET data == result.data
             first == a.firstImagePrompt = <<>>
         IN  [fullStoryContent |->
                  a.fullStoryContent
                  \o (IF a.fullStoryContent # <<>> THEN <<"\n", "\n">> ELSE <<>>)
                  \o data.content,
              finalStats       |-> data.stats,
              finalCharUpdates |-> data.characterUpdates,
              firstImagePrompt |->
                  IF first
                  THEN IF data.backgroundImagePrompt # <<>>
                       THEN data.backgroundImagePrompt
                       ELSE <<"A", " ", "s", "c", "e", "n", "e">>
                  ELSE a.firstImagePrompt,
              overallTitle     |->
                  IF first /\ data.chapterTitle # <<>> THEN data.chapterTitle
                  ELSE a.overallTitle,
              thrown           |-> FALSE]
    ELSE [a EXCEPT !.thrown = (a.fullStoryContent = <<>>)]

RECURSIVE LinearLoop(_, _)
\* for (const batch of batchPrompts) { ... } over the results of the batches.
LinearLoop(results, k) ==
    IF k = 0 THEN LinearStart ELSE LinearBatch(LinearLoop(results, k - 1), results[k])

\* startStory in LINEAR mode: the fragment it returns; thrown when it fails.
LinearNode(results) ==
    LET a == LinearLoop(results, Len(results))
    IN  [thrown |-> a.thrown,
         node   |-> [id                    |-> "root-linear-full",
                     chapterTitle          |-> a.overallTitle,
                     content               |-> a.fullStoryContent,
                     choices               |-> <<>>,
                     characterUpdates      |-> a.finalCharUpdates,
                     stats                 |-> a.finalStats,
                     backgroundImagePrompt |-> a.firstImagePrompt]]


\* ------------------------------------------------------------------------
\* Bounds and inputs
\* ------------------------------------------------------------------------

\* Generation requests issued in one behaviour.
MaxRequests == 3

\* Stories kept in the archive.
MaxSaves == 1

GameModes == {"INTERACTIVE", "LINEAR"}

NoError == "null"

NoGenre == "null"

Stats(n) == [tension |-> n, mystery |-> n, romance |-> n, hope |-> n]

\* "Go on."  with two choices and an illustration.
DataScene ==
    [chapterTitle          |-> <<"C", "1">>,
     content               |-> <<"G", "o", " ", "o", "n", ".">>,
     choices               |-> << [id |-> "a"], [id |-> "b"] >>,
     characterUpdates      |-> << [name |-> "Ann", role |-> "hero", affinity |-> 50] >>,
     stats                 |-> Stats(40),
     backgroundImagePrompt |-> <<"i">>]

\* "## A\nx.\n## B\ny."  two chapters, one choice, an illustration.
DataChapters ==
    [chapterTitle          |-> <<"C", "2">>,
     content               |-> <<"#", "#", " ", "A", "\n", "x", ".", "\n",
                                 "#", "#", " ", "B", "\n", "y", ".">>,
     choices               |-> << [id |-> "a"] >>,
     characterUpdates      |-> << [name |-> "Ann", affinity |-> 60] >>,
     stats                 |-> Stats(60),
     backgroundImagePrompt |-> <<"i">>]

\* "End."  the ending of a story: no choices, no illustration.
DataEnding ==
    [chapterTitle          |-> <<"C", "3">>,
     content               |-> <<"E", "n", "d", ".">>,
     choices               |-> <<>>,
     characterUpdates      |-> <<>>,
     stats                 |-> Stats(10),
     backgroundImagePrompt |-> <<>>]

\* An empty response: no text and no illustration.
DataEmpty ==
    [chapterTitle          |-> <<>>,
     content               |-> <<>>,
     choices               |-> << [id |-> "a"] >>,
     characterUpdates      |-> <<>>,
     stats                 |-> Stats(50),
     backgroundImagePrompt |-> <<>>]

\* The responses the service gives to the first request of an INTERACTIVE story.
StartResponses == {DataScene, DataChapters, DataEmpty}

\* The responses the service gives to a choice.
ContinueResponses == {DataScene, DataEnding}

Ok(data) == [ok |-> TRUE, data |-> data]

Failed == [ok |-> FALSE]

\* A response whose text is empty: `if (text)` skips it.
NoText == [ok |-> TRUE]

\* The outcomes of the batches of a LINEAR story: every batch answers; only
\* the first answers; the first fails.
BatchRuns ==
    LET n == TotalBatches(StoryLength)
    IN  { [k \in 1..n |-> Ok(DataChapters)],
          [k \in 1..n |-> IF k = 1 THEN Ok(DataEnding) ELSE Failed],
          [k \in 1..n |-> IF k = 1 THEN Failed ELSE Ok(DataScene)] }

\* A sequence without its i-th element.
Without(q, i) == SubSeq(q, 1, i - 1) \o SubSeq(q, i + 1, Len(q))

\* ------------------------------------------------------------------------
\* State
\* ------------------------------------------------------------------------

VARIABLES
    currentView,       \* gameState.currentView
    gameMode,          \* gameState.gameMode
    selectedGenre,     \* gameState.selectedGenre, NoGenre for null
    characterSetup,    \* gameState.characterSetup
    storyHistory,      \* gameState.storyHistory
    characters,        \* gameState.characters
    isLoading,         \* gameState.isLoading
    error,             \* gameState.error, NoError for null
    isGameOver,        \* gameState.isGameOver
    statsHistory,      \* gameState.statsHistory
    savedStories,      \* the archive
    currentPageIndex,  \* BookLayout: index of the left page, 0-based
    pages,             \* BookLayout: the pages memo
    inflight,          \* generation requests awaiting their answer
    timers,            \* start fragments awaiting the setTimeout of handleStartGame
    issued             \* generation requests issued so far

gameState == <<currentView, gameMode, selectedGenre, characterSetup, storyHistory,
               characters, isLoading, error, isGameOver, statsHistory>>

book == <<currentPageIndex, pages>>

vars == <<gameState, savedStories, book, inflight, timers, issued>>

\* INITIAL_STATE
IsInitialState(view, mode, genre, setup, history, chars, loading, err, over, stats) ==
    /\ view = "MENU"
    /\ mode = "INTERACTIVE"
    /\ genre = NoGenre
    /\ setup = [protagonists |-> << "" >>, antagonists |-> <<>>, support |-> <<>>]
    /\ history = <<>>
    /\ chars = <<>>
    /\ loading = FALSE
    /\ err = NoError
    /\ over = FALSE
    /\ stats = <<>>

\* The book after the render that follows a change of gameState.
Render ==
    /\ pages' = RenderedPages(currentView, storyHistory, gameMode, pages,
                              currentView', storyHistory', gameMode')
    /\ currentPageIndex' =
           RenderedIndex(currentView, storyHistory, gameMode, currentPageIndex,
                         currentView', storyHistory', gameMode', pages')

Init ==
    /\ IsInitialState(currentView, gameMode, selectedGenre, characterSetup, storyHistory,
                      characters, isLoading, error, isGameOver, statsHistory)
    /\ savedStories = <<>>
    /\ currentPageIndex = 0
    /\ pages = <<>>
    /\ inflight = <<>>
    /\ timers = <<>>
    /\ issued = 0


\* ------------------------------------------------------------------------
\* Actions of App.tsx
\* ------------------------------------------------------------------------

\* The NEW STORY button of the menu.
SelectNewStory ==
    /\ currentView = "MENU"
    /\ currentView' = "MODE_SELECTION"
    /\ UNCHANGED <<gameMode, selectedGenre, characterSetup, storyHistory, characters,
                   isLoading, error, isGameOver, statsHistory>>
    /\ Render
    /\ UNCHANGED <<savedStories, inflight, timers, issued>>

handleModeSelect(mode) ==
    /\ currentView = "MODE_SELECTION"
    /\ gameMode' = mode
    /\ currentView' = "GENRE"
    /\ UNCHANGED <<selectedGenre, characterSetup, storyHistory, characters,
                   isLoading, error, isGameOver, statsHistory>>
    /\ Render
    /\ UNCHANGED <<savedStories, inflight, timers, issued>>

handleGenreSelect(category) ==
    /\ currentView = "GENRE"
    /\ selectedGenre' = category
    /\ currentView' = "CHARACTERS"
    /\ UNCHANGED <<gameMode, characterSetup, storyHistory, characters,
                   isLoading, error, isGameOver, statsHistory>>
    /\ Render
    /\ UNCHANGED <<savedStories, inflight, timers, issued>>

\* handleCharacterChange('protagonists', 0, value)
handleCharacterChange(value) ==
    /\ currentView = "CHARACTERS"
    /\ characterSetup.protagonists[1] # value
    /\ characterSetup' = [characterSetup EXCEPT !.protagonists[1] = value]
    /\ UNCHANGED <<currentView, gameMode, selectedGenre, storyHistory, characters,
                   isLoading, error, isGameOver, statsHistory>>
    /\ Render
    /\ UNCHANGED <<savedStories, inflight, timers, issued>>

\* protagonists.filter(p => p.trim())
NamedOnly(names) == SelectSeq(names, LAMBDA p : p # "")

\* handleStartGame up to its await: the alert for a cast without protagonist
\* leaves the state alone and is no step.
handleStartGame ==
    /\ currentView = "CHARACTERS"
    /\ issued < MaxRequests
    /\ LET prots == NamedOnly(characterSetup.protagonists)
       IN  /\ Len(prots) > 0
           /\ IF selectedGenre = NoGenre
              THEN /\ currentView' = "GENRE"
                   /\ UNCHANGED <<characterSetup, error, inflight, issued>>
              ELSE /\ currentView' = "LOADING"
                   /\ characterSetup' = [characterSetup EXCEPT !.protagonists = prots]
                   /\ error' = NoError
                   /\ inflight' = Append(inflight, [kind |-> "start", mode |-> gameMode])
                   /\ issued' = issued + 1
    /\ UNCHANGED <<gameMode, selectedGenre, storyHistory, characters,
                   isLoading, isGameOver, statsHistory>>
    /\ Render
    /\ UNCHANGED <<savedStories, timers>>

\* startStory answers: handleStartGame goes on to its setTimeout.
StartResolve(i, startNode) ==
    /\ inflight[i].kind = "start"
    /\ inflight' = Without(inflight, i)
    /\ timers' = Append(timers, startNode)
    /\ UNCHANGED <<gameState, savedStories, book, issued>>

\* The answers startStory can give to the request inflight[i].
StartAnswers(i) ==
    IF inflight[i].kind # "start" THEN {}
    ELSE IF inflight[i].mode = "LINEAR"
    THEN {LinearNode(run).node : run \in {r \in BatchRuns : ~LinearNode(r).thrown}}
    ELSE {RootNode(data) : data \in StartResponses}

\* startStory throws: the catch of handleStartGame.
StartFail(i, is429) ==
    /\ inflight[i].kind = "start"
    /\ inflight' = Without(inflight, i)
    /\ currentView' = "CHARACTERS"
    /\ isLoading' = FALSE
    /\ error' = IF is429 THEN "Gemini API Quota Exceeded. Please try again in a minute."
                ELSE "Failed to generate story. Please check your API Key or connection."
    /\ UNCHANGED <<gameMode, selectedGenre, characterSetup, storyHistory, characters,
                   isGameOver, statsHistory>>
    /\ Render
    /\ UNCHANGED <<savedStories, timers, issued>>

\* The callback of the setTimeout of handleStartGame.
StartCommit ==
    /\ Len(timers) > 0
    /\ LET startNode == Head(timers)
       IN  /\ storyHistory' = << startNode >>
           /\ characters' = updateCharacters(characters, startNode.characterUpdates)
           /\ statsHistory' = << startNode.stats >>
    /\ isLoading' = FALSE
    /\ currentView' = "GAME"
    /\ timers' = Tail(timers)
    /\ UNCHANGED <<gameMode, selectedGenre, characterSetup, error, isGameOver>>
    /\ Render
    /\ UNCHANGED <<savedStories, inflight, issued>>

\* The choice buttons on the two pages of the open spread.
VisibleChoices ==
    UNION { {pages[p].choices[k].id : k \in 1..Len(pages[p].choices)} :
            p \in {q \in {currentPageIndex + 1, currentPageIndex + 2} :
                     q <= Len(pages) /\ HasChoices(pages[q])} }

\* handleChoice up to its await; the buttons are rendered while !isLoading.
handleChoice(choiceId) ==
    /\ currentView = "GAME"
    /\ ~isLoading
    /\ choiceId \in VisibleChoices
    /\ issued < MaxRequests
    /\ isLoading' = TRUE
    /\ error' = NoError
    /\ inflight' = Append(inflight, [kind       |-> "continue",
                                     history    |-> storyHistory,
                                     choiceId   |-> choiceId,
                                     characters |-> characters])
    /\ issued' = issued + 1
    /\ UNCHANGED <<currentView, gameMode, selectedGenre, characterSetup, storyHistory,
                   characters, isGameOver, statsHistory>>
    /\ Render
    /\ UNCHANGED <<savedStories, timers>>

\* ChoiceResolve without the statistics of the new fragment.
ChoiceResolveKeepsStats(i, data) ==
    /\ inflight[i].kind = "continue"
    /\ LET nextNode == ContinueNode(inflight[i].history, inflight[i].choiceId, data)
       IN  /\ storyHistory' = Append(storyHistory, nextNode)
           /\ characters' = updateCharacters(characters, nextNode.characterUpdates)
           /\ statsHistory' = statsHistory
           /\ isGameOver' = (Len(nextNode.choices) = 0)
    /\ isLoading' = FALSE
    /\ inflight' = Without(inflight, i)
    /\ UNCHANGED <<currentView, gameMode, selectedGenre, characterSetup, error>>
    /\ Render
    /\ UNCHANGED <<savedStories, timers, issued>>

\* continueStory answers: the state update of handleChoice after its await.
ChoiceResolve(i, data) ==
    /\ inflight[i].kind = "continue"
    /\ LET nextNode == ContinueNode(inflight[i].history, inflight[i].choiceId, data)
       IN  /\ storyHistory' = Append(storyHistory, nextNode)
           /\ characters' = updateCharacters(characters, nextNode.characterUpdates)
           /\ statsHistory' = Append(statsHistory, nextNode.stats)
           /\ isGameOver' = (Len(nextNode.choices) = 0)
    /\ isLoading' = FALSE
    /\ inflight' = Without(inflight, i)
    /\ UNCHANGED <<currentView, gameMode, selectedGenre, characterSetup, error>>
    /\ Render
    /\ UNCHANGED <<savedStories, timers, issued>>

\* ChoiceFail without the reset of isLoading.
ChoiceFailStaysLoading(i, is429) ==
    /\ inflight[i].kind = "continue"
    /\ error' = IF is429 THEN "Rate limit hit. Please wait a moment."
                ELSE "Failed to continue story. Please try again."
    /\ inflight' = Without(inflight, i)
    /\ UNCHANGED <<currentView, gameMode, selectedGenre, characterSetup, storyHistory,
                   characters, isLoading, isGameOver, statsHistory>>
    /\ Render
    /\ UNCHANGED <<savedStories, timers, issued>>

\* continueStory throws: the catch of handleChoice.
ChoiceFail(i, is429) ==
    /\ inflight[i].kind = "continue"
    /\ isLoading' = FALSE
    /\ error' = IF is429 THEN "Rate limit hit. Please wait a moment."
                ELSE "Failed to continue story. Please try again."
    /\ inflight' = Without(inflight, i)
    /\ UNCHANGED <<currentView, gameMode, selectedGenre, characterSetup, storyHistory,
                   characters, isGameOver, statsHistory>>
    /\ Render
    /\ UNCHANGED <<savedStories, timers, issued>>

\* The record handleSaveStory builds; its id is Date.now().
NewSave(id) ==
    [id           |-> id,
     genre        |-> selectedGenre,
     history      |-> storyHistory,
     characters   |-> characters,
     statsHistory |-> statsHistory,
     gameMode     |-> gameMode]

\* The Save Story button of the sidebar of the book.
handleSaveStory ==
    /\ currentView = "GAME"
    /\ Len(storyHistory) # 0
    /\ Len(savedStories) < MaxSaves
    /\ savedStories' = << NewSave(Len(savedStories) + 1) >> \o savedStories
    /\ UNCHANGED <<gameState, book, inflight, timers, issued>>

\* handleLoadStory without the game mode of the saved story.
handleLoadStoryKeepsMode(id) ==
    /\ currentView \in {"MENU", "GAME"}
    /\ \E k \in 1..Len(savedStories) :
          /\ savedStories[k].id = id
          /\ \A j \in 1..(k - 1) : savedStories[j].id # id
          /\ LET story == savedStories[k]
             IN  /\ currentView' = "GAME"
                 /\ selectedGenre' = story.genre
                 /\ storyHistory' = story.history
                 /\ characters' = story.characters
                 /\ statsHistory' = story.statsHistory
                 /\ isGameOver' = (Len(story.history[Len(story.history)].choices) = 0)
    /\ UNCHANGED <<gameMode, characterSetup, isLoading, error>>
    /\ Render
    /\ UNCHANGED <<savedStories, inflight, timers, issued>>

\* The Load button of the archive, in the menu and in the book.
handleLoadStory(id) ==
    /\ currentView \in {"MENU", "GAME"}
    /\ \E k \in 1..Len(savedStories) :
          /\ savedStories[k].id = id
          /\ \A j \in 1..(k - 1) : savedStories[j].id # id
          /\ LET story == savedStories[k]
             IN  /\ currentView' = "GAME"
                 /\ selectedGenre' = story.genre
                 /\ storyHistory' = story.history
                 /\ characters' = story.characters
                 /\ statsHistory' = story.statsHistory
                 /\ gameMode' = story.gameMode
                 /\ isGameOver' = (Len(story.history[Len(story.history)].choices) = 0)
    /\ UNCHANGED <<characterSetup, isLoading, error>>
    /\ Render
    /\ UNCHANGED <<savedStories, inflight, timers, issued>>

\* onReset={() => setGameState(INITIAL_STATE)}: Home, End Story, Create New.
onReset ==
    /\ currentView = "GAME"
    /\ IsInitialState(currentView', gameMode', selectedGenre', characterSetup',
                      storyHistory', characters', isLoading', error', isGameOver',
                      statsHistory')
    /\ Render
    /\ UNCHANGED <<savedStories, inflight, timers, issued>>

\* ------------------------------------------------------------------------
\* Actions of BookLayout.tsx
\* ------------------------------------------------------------------------

handleNextFlip ==
    /\ currentView = "GAME"
    /\ currentPageIndex < Len(pages) - 2
    /\ currentPageIndex' = currentPageIndex + 2
    /\ UNCHANGED <<gameState, pages, savedStories, inflight, timers, issued>>

handlePrevFlip ==
    /\ currentView = "GAME"
    /\ currentPageIndex > 0
    /\ currentPageIndex' = currentPageIndex - 2
    /\ UNCHANGED <<gameState, pages, savedStories, inflight, timers, issued>>

\* The 0-based indices the bookmark menu offers: the chapter-start pages.
Bookmarks ==
    {idx \in 0..(Len(pages) - 1) :
        "isChapterStart" \in DOMAIN pages[idx + 1] /\ pages[idx + 1].isChapterStart}

\* A bookmark of the menu shown in LINEAR mode.
jumpToPage(index) ==
    /\ currentView = "GAME"
    /\ gameMode = "LINEAR"
    /\ index \in Bookmarks
    /\ currentPageIndex' = JumpTarget(index)
    /\ currentPageIndex' # currentPageIndex
    /\ UNCHANGED <<gameState, pages, savedStories, inflight, timers, issued>>

Next ==
    \/ SelectNewStory
    \/ \E mode \in GameModes : handleModeSelect(mode)
    \/ handleGenreSelect("Fantasy")
    \/ handleCharacterChange("Ann")
    \/ handleStartGame
    \/ \E i \in 1..Len(inflight) : \E node \in StartAnswers(i) : StartResolve(i, node)
    \/ \E i \in 1..Len(inflight) : \E is429 \in BOOLEAN : StartFail(i, is429)
    \/ StartCommit
    \/ \E choiceId \in VisibleChoices : handleChoice(choiceId)
    \/ \E i \in 1..Len(inflight) : \E data \in ContinueResponses : ChoiceResolve(i, data)
    \/ \E i \in 1..Len(inflight) : \E is429 \in BOOLEAN : ChoiceFail(i, is429)
    \/ handleSaveStory
    \/ \E id \in 1..Len(savedStories) : handleLoadStory(id)
    \/ onReset
    \/ handleNextFlip
    \/ handlePrevFlip
    \/ \E index \in Bookmarks : jumpToPage(index)

Spec == Init /\ [][Next]_vars


\* ------------------------------------------------------------------------
\* The book opened on a given history
\* ------------------------------------------------------------------------

\* Fragments of one history the book is opened on.
MaxPagHistory == 2

Letters == <<"a", "b", "c", "d", "e">>

\* n words, one letter each, with a full stop after the words at `stops`.
Prose(n, stops) ==
    JoinSpaces([i \in 1..n |->
                  << Letters[(i % 5) + 1] >> \o (IF i \in stops THEN <<".">> ELSE <<>>)])

\* A page of exactly WORDS_PER_PAGE words whose last word ends a sentence.
DataFullPage ==
    [chapterTitle          |-> <<"C", "4">>,
     content               |-> Prose(WORDS_PER_PAGE, {WORDS_PER_PAGE}),
     choices               |-> << [id |-> "a"], [id |-> "b"] >>,
     characterUpdates      |-> <<>>,
     stats                 |-> Stats(70),
     backgroundImagePrompt |-> <<>>]

\* "in  \n## A\n" and then 160 words without a full stop.
DataLongChapter ==
    [chapterTitle          |-> <<"C", "5">>,
     content               |-> <<"i", "n", " ", " ", "\n", "#", "#", " ", "A", "\n">>
                               \o Prose(160, {}),
     choices               |-> << [id |-> "a"] >>,
     characterUpdates      |-> <<>>,
     stats                 |-> Stats(80),
     backgroundImagePrompt |-> <<"i">>]

\* " \n "  nothing but whitespace, with an illustration.
DataBlank ==
    [chapterTitle          |-> <<"C", "6">>,
     content               |-> <<" ", "\n", " ">>,
     choices               |-> << [id |-> "a"] >>,
     characterUpdates      |-> <<>>,
     stats                 |-> Stats(50),
     backgroundImagePrompt |-> <<"i">>]

\* "##x y."  a marker that lacks the whitespace after its hashes.
DataMalformed ==
    [chapterTitle          |-> <<"C", "7">>,
     content               |-> <<"#", "#", "x", " ", "y", ".">>,
     choices               |-> << [id |-> "a"] >>,
     characterUpdates      |-> <<>>,
     stats                 |-> Stats(50),
     backgroundImagePrompt |-> <<>>]

\* " ## A\nx."  a marker with whitespace before its hashes.
DataIndented ==
    [chapterTitle          |-> <<"C", "8">>,
     content               |-> <<" ", "#", "#", " ", "A", "\n", "x", ".">>,
     choices               |-> << [id |-> "a"] >>,
     characterUpdates      |-> <<>>,
     stats                 |-> Stats(50),
     backgroundImagePrompt |-> <<>>]

\* "## A\n## B"  two chapter headings without a body.
DataBareHeading ==
    [chapterTitle          |-> <<"C", "9">>,
     content               |-> <<"#", "#", " ", "A", "\n", "#", "#", " ", "B">>,
     choices               |-> << [id |-> "a"] >>,
     characterUpdates      |-> <<>>,
     stats                 |-> Stats(50),
     backgroundImagePrompt |-> <<>>]

\* "## A\n## B\n" and then 250 words, the 90th of which ends a sentence.
DataTwoPages ==
    [chapterTitle          |-> <<"C", "0">>,
     content               |-> <<"#", "#", " ", "A", "\n", "#", "#", " ", "B", "\n">>
                               \o Prose(250, {90}),
     choices               |-> << [id |-> "a"] >>,
     characterUpdates      |-> <<>>,
     stats                 |-> Stats(50),
     backgroundImagePrompt |-> <<>>]

PagData ==
    {DataScene, DataChapters, DataEnding, DataEmpty, DataFullPage, DataLongChapter,
     DataTwoPages}

RECURSIVE PagHistoryOf(_)
\* The history whose fragments carry the given responses, each fragment after
\* the first one reached by choice "a".
PagHistoryOf(datas) ==
    IF Len(datas) = 1 THEN << RootNode(datas[1]) >>
    ELSE LET before == PagHistoryOf(SubSeq(datas, 1, Len(datas) - 1))
         IN  Append(before, ContinueNode(before, "a", datas[Len(datas)]))

PagHistories ==
    {PagHistoryOf(datas) : datas \in UNION {[1..n -> PagData] : n \in 1..MaxPagHistory}}

PagInit ==
    /\ currentView = "LOADING"
    /\ gameMode \in GameModes
    /\ selectedGenre = "Fantasy"
    /\ characterSetup = [protagonists |-> << "Ann" >>, antagonists |-> <<>>, support |-> <<>>]
    /\ storyHistory \in PagHistories
    /\ characters = <<>>
    /\ isLoading = FALSE
    /\ error = NoError
    /\ isGameOver = FALSE
    /\ statsHistory = [k \in 1..Len(storyHistory) |-> storyHistory[k].stats]
    /\ savedStories = <<>>
    /\ currentPageIndex = 0
    /\ pages = <<>>
    /\ inflight = <<>>
    /\ timers = <<>>
    /\ issued = 0

\* The book is mounted on the history.
OpenBook ==
    /\ currentView = "LOADING"
    /\ currentView' = "GAME"
    /\ UNCHANGED <<gameMode, selectedGenre, characterSetup, storyHistory, characters,
                   isLoading, error, isGameOver, statsHistory>>
    /\ Render
    /\ UNCHANGED <<savedStories, inflight, timers, issued>>

PagNext ==
    \/ OpenBook
    \/ handleNextFlip
    \/ handlePrevFlip
    \/ \E index \in Bookmarks : jumpToPage(index)

PagSpec == PagInit /\ [][PagNext]_vars

\* ------------------------------------------------------------------------
\* The book opened on histories of short fragments
\* ------------------------------------------------------------------------

MaxSecHistory == 2

SecData ==
    {DataScene, DataChapters, DataEmpty, DataBlank, DataMalformed, DataIndented,
     DataBareHeading}

SecHistories ==
    {PagHistoryOf(datas) : datas \in UNION {[1..n -> SecData] : n \in 1..MaxSecHistory}}

SecInit ==
    /\ currentView = "LOADING"
    /\ gameMode \in GameModes
    /\ selectedGenre = "Fantasy"
    /\ characterSetup = [protagonists |-> << "Ann" >>, antagonists |-> <<>>, support |-> <<>>]
    /\ storyHistory \in SecHistories
    /\ characters = <<>>
    /\ isLoading = FALSE
    /\ error = NoError
    /\ isGameOver = FALSE
    /\ statsHistory = [k \in 1..Len(storyHistory) |-> storyHistory[k].stats]
    /\ savedStories = <<>>
    /\ currentPageIndex = 0
    /\ pages = <<>>
    /\ inflight = <<>>
    /\ timers = <<>>
    /\ issued = 0

SecSpec == SecInit /\ [][PagNext]_vars

\* ------------------------------------------------------------------------
\* The book opened on histories of fragments of one page
\* ------------------------------------------------------------------------

MaxFillHistory == 3

FillData == {DataEnding, DataMalformed, DataScene, DataEmpty}

FillHistories ==
    {PagHistoryOf(datas) : datas \in UNION {[1..n -> FillData] : n \in 1..MaxFillHistory}}

FillInit ==
    /\ currentView = "LOADING"
    /\ gameMode \in GameModes
    /\ selectedGenre = "Fantasy"
    /\ characterSetup = [protagonists |-> << "Ann" >>, antagonists |-> <<>>, support |-> <<>>]
    /\ storyHistory \in FillHistories
    /\ characters = <<>>
    /\ isLoading = FALSE
    /\ error = NoError
    /\ isGameOver = FALSE
    /\ statsHistory = [k \in 1..Len(storyHistory) |-> storyHistory[k].stats]
    /\ savedStories = <<>>
    /\ currentPageIndex = 0
    /\ pages = <<>>
    /\ inflight = <<>>
    /\ timers = <<>>
    /\ issued = 0

FillSpec == FillInit /\ [][PagNext]_vars

\* ------------------------------------------------------------------------
\* updateCharacters on bounded collections and updates
\* ------------------------------------------------------------------------

\* Updates in one answer.
MaxUpdates == 2

\* A Partial<Character>: the fields given as "" or as -1 are absent.
UpdateOf(name, role, affinity) ==
    (IF name = "" THEN <<>> ELSE [name |-> name])
    @@ (IF role = "" THEN <<>> ELSE [role |-> role])
    @@ (IF affinity < 0 THEN <<>> ELSE [affinity |-> affinity])

UpdateSet ==
    {UpdateOf(name, role, affinity) :
        name \in {"", "Ann", "Bob"}, role \in {"", "foe"}, affinity \in {0 - 1, 0}}

UpdateSeqs == UNION {[1..n -> UpdateSet] : n \in 0..MaxUpdates}

\* A character as an earlier answer has put it in the collection.
Known(name) == [name |-> name, role |-> "hero", affinity |-> 50, status |-> "well"]

CharCollections == {<<>>, << Known("Ann") >>, << Known("Ann"), Known("Bob") >>}

\* The answers of continueStory that carry the updates.
CharResponses == {[DataEnding EXCEPT !.characterUpdates = u] : u \in UpdateSeqs}

\* A choice is pending on a story whose collection of characters is drawn.
CharInit ==
    /\ currentView = "GAME"
    /\ gameMode = "INTERACTIVE"
    /\ selectedGenre = "Fantasy"
    /\ characterSetup = [protagonists |-> << "Ann" >>, antagonists |-> <<>>, support |-> <<>>]
    /\ storyHistory = << RootNode(DataScene) >>
    /\ characters \in CharCollections
    /\ isLoading = TRUE
    /\ error = NoError
    /\ isGameOver = FALSE
    /\ statsHistory = << DataScene.stats >>
    /\ savedStories = <<>>
    /\ pages = Paginate(storyHistory, gameMode)
    /\ currentPageIndex = EffectIndex(gameMode, pages, 0, 1)
    /\ inflight = << [kind       |-> "continue",
                      history    |-> storyHistory,
                      choiceId   |-> "a",
                      characters |-> characters] >>
    /\ timers = <<>>
    /\ issued = 1

CharNext ==
    \E i \in 1..Len(inflight) : \E data \in CharResponses : ChoiceResolve(i, data)

CharSpec == CharInit /\ [][CharNext]_vars

\* ------------------------------------------------------------------------
\* updateCharacters called answer after answer
\* ------------------------------------------------------------------------

\* The update lists of the answers: none; a new character; the same name
\* with another role; an affinity for a name; a name twice in one list; a
\* name without role; updates without a name or with the name ''; two names.
CallUpdates ==
    { <<>>,
      << UpdateOf("Ann", "hero", 50) >>,
      << UpdateOf("Ann", "foe", 0) >>,
      << UpdateOf("Ann", "", 10) >>,
      << UpdateOf("Bob", "foe", 0), UpdateOf("Bob", "foe", 5) >>,
      << UpdateOf("Bob", "", 0) >>,
      << UpdateOf("", "foe", 0), [name |-> "", role |-> "foe", affinity |-> 0] >>,
      << UpdateOf("Bob", "hero", 1), UpdateOf("Ann", "hero", 2) >> }

\* The answers of continueStory that carry them; each offers choices again.
CallResponses == {[DataScene EXCEPT !.characterUpdates = u] : u \in CallUpdates}

\* A story has begun with no character in the collection.
CallInit ==
    /\ currentView = "GAME"
    /\ gameMode = "INTERACTIVE"
    /\ selectedGenre = "Fantasy"
    /\ characterSetup = [protagonists |-> << "Ann" >>, antagonists |-> <<>>, support |-> <<>>]
    /\ storyHistory = << RootNode([DataScene EXCEPT !.characterUpdates = <<>>]) >>
    /\ characters = <<>>
    /\ isLoading = FALSE
    /\ error = NoError
    /\ isGameOver = FALSE
    /\ statsHistory = << DataScene.stats >>
    /\ savedStories = <<>>
    /\ pages = Paginate(storyHistory, gameMode)
    /\ currentPageIndex = EffectIndex(gameMode, pages, 0, 1)
    /\ inflight = <<>>
    /\ timers = <<>>
    /\ issued = 0

CallNext ==
    \/ handleChoice("a")
    \/ \E i \in 1..Len(inflight) : \E data \in CallResponses : ChoiceResolve(i, data)

CallSpec == CallInit /\ [][CallNext]_vars

\* ------------------------------------------------------------------------
\* generateWithRetry (geminiService.ts)
\* ------------------------------------------------------------------------

\* retries = 5, initialDelay = 2000: the defaults of the parameters.
DefaultRetries == 5

InitialDelay == 2000

\* message.includes(sub)
Includes(s, sub) ==
    \E i \in 1..(Len(s) - Len(sub) + 1) : SubSeq(s, i, i + Len(sub) - 1) = sub

\* An error thrown by generateContent; 0 stands for a status or code that is
\* undefined, <<>> for a message that is.
ApiError(status, code, message) == [status |-> status, code |-> code, message |-> message]

NoApiError == ApiError(0, 0, <<>>)

ApiErrors ==
    {ApiError(st, 0, <<>>) : st \in {429, 500, 502, 503, 504, 400}}
    \cup {ApiError(0, cd, <<>>) : cd \in {429, 500, 503}}
    \cup {ApiError(0, 0, msg) : msg \in {<<"4", "2", "9">>, <<"q", "u", "o", "t", "a">>,
                                         <<"n", "e", "t">>}}

\* const isQuota = ...
isQuota(e) ==
    \/ e.status = 429 \/ e.code = 429
    \/ (e.message # <<>> /\ Includes(e.message, <<"4", "2", "9">>))
    \/ (e.message # <<>> /\ Includes(e.message, <<"q", "u", "o", "t", "a">>))

\* const isServer = ...
isServer(e) == e.status = 503 \/ e.code = 503 \/ e.status = 500 \/ e.code = 500

\* new Error("Gemini API Request failed after maximum retries.")
MaxRetriesError == ApiError(0, 0, <<"m", "a", "x">>)

\* One call of generateWithRetry is running in a story that is being started:
\* inflight holds its locals and what became of it, timers the setTimeout it
\* awaits, issued the calls of generateContent it has made.
RetryInit ==
    /\ currentView = "LOADING"
    /\ gameMode = "INTERACTIVE"
    /\ selectedGenre = "Fantasy"
    /\ characterSetup = [protagonists |-> << "Ann" >>, antagonists |-> <<>>, support |-> <<>>]
    /\ storyHistory = <<>>
    /\ characters = <<>>
    /\ isLoading = FALSE
    /\ error = NoError
    /\ isGameOver = FALSE
    /\ statsHistory = <<>>
    /\ savedStories = <<>>
    /\ currentPageIndex = 0
    /\ pages = <<>>
    /\ \E retries \in (0 - 1)..DefaultRetries : \E initialDelay \in {1, InitialDelay} :
          inflight = << [kind         |-> "generate",
                         retries      |-> retries,
                         initialDelay |-> initialDelay,
                         attempt      |-> 0,
                         delay        |-> initialDelay,
                         waited       |-> <<>>,
                         outcome      |-> "pending",
                         thrown       |-> NoApiError] >>
    /\ timers = <<>>
    /\ issued = 0

\* return await ai.models.generateContent(params)
generateContentReturns(i) ==
    /\ inflight[i].outcome = "pending"
    /\ inflight[i].attempt <= inflight[i].retries
    /\ issued' = issued + 1
    /\ inflight' = [inflight EXCEPT ![i].outcome = "returned"]
    /\ UNCHANGED <<gameState, savedStories, book, timers>>

\* generateContentThrows that waits and tries again after the last attempt too.
generateContentThrowsWaitsOnLast(i, e) ==
    /\ inflight[i].outcome = "pending"
    /\ inflight[i].attempt <= inflight[i].retries
    /\ issued' = issued + 1
    /\ IF (isQuota(e) \/ isServer(e)) /\ inflight[i].attempt <= inflight[i].retries
       THEN /\ inflight' = [inflight EXCEPT ![i].outcome = "waiting"]
            /\ timers' = Append(timers, inflight[i].delay)
       ELSE /\ inflight' = [inflight EXCEPT ![i].outcome = "thrown", ![i].thrown = e]
            /\ timers' = timers
    /\ UNCHANGED <<gameState, savedStories, book>>

\* generateContent throws e: the catch of generateWithRetry.
generateContentThrows(i, e) ==
    /\ inflight[i].outcome = "pending"
    /\ inflight[i].attempt <= inflight[i].retries
    /\ issued' = issued + 1
    /\ IF (isQuota(e) \/ isServer(e)) /\ inflight[i].attempt < inflight[i].retries
       THEN /\ inflight' = [inflight EXCEPT ![i].outcome = "waiting"]
            /\ timers' = Append(timers, inflight[i].delay)
       ELSE /\ inflight' = [inflight EXCEPT ![i].outcome = "thrown", ![i].thrown = e]
            /\ timers' = timers
    /\ UNCHANGED <<gameState, savedStories, book>>

\* backoffElapsed without the doubling of delay.
backoffElapsedSameDelay(i) ==
    /\ inflight[i].outcome = "waiting"
    /\ timers' = Tail(timers)
    /\ inflight' = [inflight EXCEPT ![i].waited  = Append(@, Head(timers)),
                                    ![i].attempt = @ + 1,
                                    ![i].outcome = "pending"]
    /\ UNCHANGED <<gameState, savedStories, book, issued>>

\* The setTimeout of the catch fires: delay *= 2; attempt++.
backoffElapsed(i) ==
    /\ inflight[i].outcome = "waiting"
    /\ timers' = Tail(timers)
    /\ inflight' = [inflight EXCEPT ![i].waited  = Append(@, Head(timers)),
                                    ![i].delay   = @ * 2,
                                    ![i].attempt = @ + 1,
                                    ![i].outcome = "pending"]
    /\ UNCHANGED <<gameState, savedStories, book, issued>>

\* The while loop is left: the throw that follows it.
retriesExhausted(i) ==
    /\ inflight[i].outcome = "pending"
    /\ ~(inflight[i].attempt <= inflight[i].retries)
    /\ inflight' = [inflight EXCEPT ![i].outcome = "thrown", ![i].thrown = MaxRetriesError]
    /\ UNCHANGED <<gameState, savedStories, book, timers, issued>>

RetryNext ==
    \/ \E i \in 1..Len(inflight) : generateContentReturns(i)
    \/ \E i \in 1..Len(inflight) : \E e \in ApiErrors : generateContentThrows(i, e)
    \/ \E i \in 1..Len(inflight) : backoffElapsed(i)
    \/ \E i \in 1..Len(inflight) : retriesExhausted(i)

\* Every call of generateContent settles and every setTimeout fires.
RetrySpec == RetryInit /\ [][RetryNext]_vars /\ WF_vars(RetryNext)

\* ------------------------------------------------------------------------
\* startStory in LINEAR mode, batch by batch
\* ------------------------------------------------------------------------

\* The batches of one story.
MaxBatches == 3

\* What one batch request can come to.
BatchResults == {Ok(DataScene), Ok(DataEnding), Ok(DataEmpty), NoText, Failed}

\* startStory is running for a LINEAR story of some length: inflight holds
\* the length, the results of the batches so far and the accumulators.
LinearInit ==
    /\ currentView = "LOADING"
    /\ gameMode = "LINEAR"
    /\ selectedGenre = "Fantasy"
    /\ characterSetup = [protagonists |-> << "Ann" >>, antagonists |-> <<>>, support |-> <<>>]
    /\ storyHistory = <<>>
    /\ characters = <<>>
    /\ isLoading = FALSE
    /\ error = NoError
    /\ isGameOver = FALSE
    /\ statsHistory = <<>>
    /\ savedStories = <<>>
    /\ currentPageIndex = 0
    /\ pages = <<>>
    /\ \E n \in 1..MaxBatches :
          inflight = << [kind        |-> "start",
                         mode        |-> "LINEAR",
                         storyLength |-> 1000 * n,
                         results     |-> <<>>,
                         acc         |-> LinearStart] >>
    /\ timers = <<>>
    /\ issued = 1

\* The request of the next batch settles: one turn of the loop.
batchSettles(i, result) ==
    /\ inflight[i].kind = "start"
    /\ Len(inflight[i].results) < TotalBatches(inflight[i].storyLength)
    /\ ~inflight[i].acc.thrown
    /\ inflight' = [inflight EXCEPT ![i].results = Append(@, result),
                                    ![i].acc     = LinearBatch(@, result)]
    /\ UNCHANGED <<gameState, savedStories, book, timers, issued>>

\* return finalNode, after the last batch.
startStoryReturns(i) ==
    /\ Len(inflight[i].results) = TotalBatches(inflight[i].storyLength)
    /\ ~inflight[i].acc.thrown
    /\ StartResolve(i, LinearNode(inflight[i].results).node)

\* throw e, out of the catch of a batch.
startStoryThrows(i, is429) ==
    /\ inflight[i].acc.thrown
    /\ StartFail(i, is429)

LinearNext ==
    \/ \E i \in 1..Len(inflight) : \E result \in BatchResults : batchSettles(i, result)
    \/ \E i \in 1..Len(inflight) : startStoryReturns(i)
    \/ \E i \in 1..Len(inflight) : \E is429 \in BOOLEAN : startStoryThrows(i, is429)
    \/ StartCommit

LinearSpec == LinearInit /\ [][LinearNext]_vars

\* ------------------------------------------------------------------------
\* Where the pages of the book come from
\* ------------------------------------------------------------------------

\* generatedPages once the first k fragments of the history are laid out.
PagesUpTo(k) == PackHistory(EffectiveHistory(storyHistory), gameMode, k).generatedPages

\* The positions in `pages` of the pages pushed for the k-th fragment.
NodeRange(k) == (Len(PagesUpTo(k - 1)) + 1)..Len(PagesUpTo(k))

\* generatedPages once the first j sections of the k-th fragment are laid out.
PagesUpToSection(k, j) ==
    LET node == storyHistory[k]
    IN  PackSections(node, Sections(node), j,
            PushVisual(node, k - 1, gameMode,
                       PackHistory(storyHistory, gameMode, k - 1))).generatedPages

\* The positions in `pages` of the pages pushed for section j of fragment k:
\* the pages that carry the ids the source gives to the pages of that section.
SectionRange(k, j) ==
    LET sec == storyHistory[k].id \o "-sec" \o ToString(j - 1)
        ids == {sec \o "-end"} \cup {sec \o "-pg" \o ToString(n) : n \in 1..Len(pages)}
    IN  {p \in 1..Len(pages) : pages[p].id \in ids}

\* The positions of `pages` that show choices.
ChoicePages == {p \in 1..Len(pages) : HasChoices(pages[p])}

IsFiller(page) == page.id = "filler-end"


\* ------------------------------------------------------------------------
\* Properties
\* ------------------------------------------------------------------------

\* C1: when the newest fragment has choices, exactly one of the pages pushed
\* for it shows choices, and that page is the last page of its last section.
NewestChoicesOnItsLastPage ==
    (currentView = "GAME" /\ Len(storyHistory[Len(storyHistory)].choices) > 0) =>
        LET n        == Len(storyHistory)
            carrying == ChoicePages \cap NodeRange(n)
            nSections == Len(Sections(storyHistory[n]))
        IN  /\ Cardinality(carrying) = 1
            /\ nSections > 0
            /\ carrying = {SetMax(SectionRange(n, nSections))}
            /\ \A p \in carrying : pages[p].choices = storyHistory[n].choices

\* C2: no page pushed for a fragment before the newest one shows choices; a
\* page that shows choices is the last page pushed for the newest fragment.
OnlyNewestFragmentShowsChoices ==
    currentView = "GAME" =>
        LET n == Len(storyHistory)
        IN  /\ \A k \in 1..(n - 1) : ChoicePages \cap NodeRange(k) = {}
            /\ ChoicePages \subseteq {Len(PagesUpTo(n))}

\* C3: the index of the left page is even and lies in 0..pageCount-2 for a
\* book with pages, and is 0 for a book without pages.
IndexOnASpread ==
    currentView = "GAME" =>
        IF Len(pages) > 0
        THEN /\ currentPageIndex % 2 = 0
             /\ currentPageIndex >= 0
             /\ currentPageIndex <= Len(pages) - 2
        ELSE currentPageIndex = 0

\* C4: the number of pages of the book is even.
PageCountEven == currentView = "GAME" => Len(pages) % 2 = 0

\* C4, its case: the pages of the fragments were odd in number and the filler
\* page was appended.
FillerAppended ==
    /\ currentView = "GAME"
    /\ Len(pages) > 0
    /\ IsFiller(pages[Len(pages)])
    /\ Len(PagesUpTo(Len(storyHistory))) % 2 = 1

\* C5: the page at 0-based position i has pageNumber i + 1.
PageNumbersConsecutive ==
    currentView = "GAME" => \A p \in 1..Len(pages) : pages[p].pageNumber = p

\* C5, its case: a book of two fragments with an illustration page that is
\* not the first page, a fragment of several sections, and the filler page.
NumberedAcrossFragments ==
    /\ currentView = "GAME"
    /\ Len(storyHistory) >= 2
    /\ \E p \in 2..Len(pages) : pages[p].type = "FULL_IMAGE"
    /\ \E k \in 1..Len(storyHistory) : Len(Sections(storyHistory[k])) >= 2
    /\ IsFiller(pages[Len(pages)])

\* The contents of the pages at the positions r, in page order.
ContentsAt(r) == [i \in 1..Cardinality(r) |-> pages[SetMin(r) + i - 1].content]

\* C6: for every section of every fragment, the contents of the pages pushed
\* for it, joined by single spaces, hold the tokens of the section body, in
\* order; those pages are text pages, and a filler page is empty.
NoWordLost ==
    currentView = "GAME" =>
        /\ \A k \in 1..Len(storyHistory) :
              LET secs == Sections(storyHistory[k])
              IN  \A j \in 1..Len(secs) :
                      LET r == SectionRange(k, j)
                      IN  /\ r # {}
                          /\ \A p \in r : pages[p].type = "TEXT"
                          /\ SplitSpaces(JoinSpaces(ContentsAt(r))) = SplitSpaces(secs[j].body)
        /\ \A p \in 1..Len(pages) : IsFiller(pages[p]) => pages[p].content = <<>>

\* C6, its case: a section laid out on several pages, one of them closed on
\* the overrun of the limit and not on the end of a sentence.
SectionOnSeveralPages ==
    /\ currentView = "GAME"
    /\ \E k \in 1..Len(storyHistory) :
          \E j \in 1..Len(Sections(storyHistory[k])) :
              /\ Cardinality(SectionRange(k, j)) >= 2
              /\ \E p \in SectionRange(k, j) :
                    LET ws == SplitSpaces(pages[p].content)
                    IN  Len(ws) > WORDS_PER_PAGE - 50 /\ ~EndsSentence(ws[Len(ws)])

\* C7: at most one generation request is in flight.
OneRequestInFlight == Len(inflight) <= 1

\* C8: the answer to a choice is appended only to the history the choice was
\* made on; an answer that finds another history leaves the history, the
\* characters and the statistics as they are.
AnswerJoinsItsOwnHistory ==
    [][\A i \in 1..Len(inflight) : \A data \in ContinueResponses :
          ChoiceResolve(i, data) =>
              \/ inflight[i].history = storyHistory
              \/ UNCHANGED <<storyHistory, characters, statsHistory>>]_vars

\* The ids of the choices shown somewhere in the book pgs.
ChoiceIdsOf(pgs) ==
    UNION { {pgs[p].choices[k].id : k \in 1..Len(pgs[p].choices)} :
            p \in {q \in 1..Len(pgs) : HasChoices(pgs[q])} }

\* C9: neither the submission of a choice nor the failure of its request
\* changes the history, the characters or the statistics; the failure ends
\* the loading state and records an error, and on the history the choice was
\* made on the book still offers that choice.
FailedChoiceKeepsStory ==
    [][/\ \A choiceId \in VisibleChoices :
             handleChoice(choiceId) => UNCHANGED <<storyHistory, characters, statsHistory>>
       /\ \A i \in 1..Len(inflight) : \A is429 \in BOOLEAN :
             ChoiceFail(i, is429) =>
                 /\ UNCHANGED <<storyHistory, characters, statsHistory>>
                 /\ isLoading' = FALSE
                 /\ error' # NoError
                 /\ (currentView = "GAME" /\ inflight[i].history = storyHistory
                        /\ inflight[i].characters = characters)
                    => inflight[i].choiceId \in ChoiceIdsOf(pages')]_vars

\* C9, its case: the request of a choice has failed in the book, and the
\* choice is on the open spread again.
ChoiceFailedInBook ==
    /\ currentView = "GAME"
    /\ error \in {"Rate limit hit. Please wait a moment.",
                  "Failed to continue story. Please try again."}
    /\ ~isLoading
    /\ inflight = <<>>
    /\ VisibleChoices # {}

\* C10: in a book with pages, a state in which handleNextFlip does nothing
\* has the index pageCount-2 and a state in which handlePrevFlip does nothing
\* has the index 0: the flips settle at the last and at the first spread.
FlipsSettleAtTheEnds ==
    (currentView = "GAME" /\ Len(pages) > 0) =>
        /\ ~(currentPageIndex < Len(pages) - 2) => currentPageIndex = Len(pages) - 2
        /\ ~(currentPageIndex > 0) => currentPageIndex = 0

\* C11: a fragment whose content is empty or nothing but whitespace still has
\* at least one page pushed for it.
BlankFragmentHasPage ==
    currentView = "GAME" =>
        \A k \in 1..Len(storyHistory) :
            Trim(storyHistory[k].content) = <<>> => NodeRange(k) # {}

\* The content holds "##" somewhere.
HasHashes(content) ==
    \E i \in 1..(Len(content) - 1) : content[i] = "#" /\ content[i + 1] = "#"

\* The content holds "##", and no "##" of it is a chapter marker: the split
\* on the markers leaves it in one piece.
MalformedMarker(content) ==
    HasHashes(content) /\ Len(SplitMarkers(<<"\n">> \o content)) = 1

\* The one section of a fragment taken as continuation text: not a new
\* chapter, titled as the fragment, the whole content as its body.
IsContinuationOf(secs, node) ==
    /\ Len(secs) = 1
    /\ ~secs[1].isNewChapter
    /\ secs[1].title = node.chapterTitle
    /\ secs[1].body \in {node.content, <<"\n">> \o node.content}

\* C15: a fragment whose content carries a malformed chapter marker is laid
\* out as continuation text.
MalformedMarkerIsContinuation ==
    currentView = "GAME" =>
        \A k \in 1..Len(storyHistory) :
            MalformedMarker(storyHistory[k].content) =>
                IsContinuationOf(Sections(storyHistory[k]), storyHistory[k])

\* C16: a fragment whose content is not empty and holds no "##" yields one
\* section, a continuation titled as the fragment, and none of its pages
\* starts a chapter.
PlainTextIsOneContinuation ==
    currentView = "GAME" =>
        \A k \in 1..Len(storyHistory) :
            (Len(storyHistory[k].content) > 0 /\ ~HasHashes(storyHistory[k].content)) =>
                /\ IsContinuationOf(Sections(storyHistory[k]), storyHistory[k])
                /\ \A p \in NodeRange(k) :
                       ~("isChapterStart" \in DOMAIN pages[p] /\ pages[p].isChapterStart)

\* The positions in `pages` of the pages closed inside the word loop of
\* section j of fragment k, the pages closed before the end of the section:
\* the pages that carry the ids the loop gives.
LoopRange(k, j) ==
    LET sec == storyHistory[k].id \o "-sec" \o ToString(j - 1)
        ids == {sec \o "-pg" \o ToString(n) : n \in 1..Len(pages)}
    IN  {p \in 1..Len(pages) : pages[p].id \in ids}

\* The budget B of the page at position p of section j of fragment k.
Budget(k, j, p) ==
    IF p = SetMin(SectionRange(k, j)) /\ Sections(storyHistory[k])[j].isNewChapter
    THEN WORDS_PER_PAGE - 50 ELSE WORDS_PER_PAGE

\* C19: a page closed before the end of its section holds B to B+21 tokens;
\* its last token is the first one at or after position B that ends a
\* sentence, or it is token B+21.
ClosedPagesWithinBudget ==
    currentView = "GAME" =>
        \A k \in 1..Len(storyHistory) :
            \A j \in 1..Len(Sections(storyHistory[k])) :
                \A p \in LoopRange(k, j) :
                    LET ws == SplitSpaces(pages[p].content)
                        B  == Budget(k, j, p)
                    IN  /\ Len(ws) >= B
                        /\ Len(ws) <= B + 21
                        /\ EndsSentence(ws[Len(ws)]) \/ Len(ws) = B + 21
                        /\ \A i \in B..(Len(ws) - 1) : ~EndsSentence(ws[i])

\* C19, its case: the first page of a chapter closed on a sentence after
\* position B, and a later page of it closed on the overrun at token B+21.
ClosedOnSentenceAndOnOverrun ==
    /\ currentView = "GAME"
    /\ \E k \in 1..Len(storyHistory) :
          \E j \in 1..Len(Sections(storyHistory[k])) :
              /\ \E p \in LoopRange(k, j) :
                    LET ws == SplitSpaces(pages[p].content)
                    IN  /\ Budget(k, j, p) = WORDS_PER_PAGE - 50
                        /\ Len(ws) > WORDS_PER_PAGE - 50
                        /\ EndsSentence(ws[Len(ws)])
              /\ \E p \in LoopRange(k, j) :
                    LET ws == SplitSpaces(pages[p].content)
                    IN  /\ Budget(k, j, p) = WORDS_PER_PAGE
                        /\ Len(ws) = WORDS_PER_PAGE + 21
                        /\ ~EndsSentence(ws[Len(ws)])

\* The page at position p starts a chapter.
StartsChapter(p) == "isChapterStart" \in DOMAIN pages[p] /\ pages[p].isChapterStart

\* C20: a new-chapter section has at least one page, its first page is the
\* one page of it that starts a chapter; no page of a continuation section
\* starts a chapter.
ChapterStartsOnFirstPage ==
    currentView = "GAME" =>
        \A k \in 1..Len(storyHistory) :
            LET secs == Sections(storyHistory[k])
            IN  \A j \in 1..Len(secs) :
                    LET r == SectionRange(k, j)
                    IN  IF secs[j].isNewChapter
                        THEN /\ r # {}
                             /\ {p \in r : StartsChapter(p)} = {SetMin(r)}
                        ELSE {p \in r : StartsChapter(p)} = {}

\* C20, its case: a chapter without a body that has its page, and a chapter
\* laid out on several pages.
ChapterWithoutBodyAndLongChapter ==
    /\ currentView = "GAME"
    /\ \E k \in 1..Len(storyHistory) :
          \E j \in 1..Len(Sections(storyHistory[k])) :
              /\ Sections(storyHistory[k])[j].isNewChapter
              /\ Sections(storyHistory[k])[j].body = <<>>
              /\ SectionRange(k, j) # {}
    /\ \E k \in 1..Len(storyHistory) :
          \E j \in 1..Len(Sections(storyHistory[k])) :
              /\ Sections(storyHistory[k])[j].isNewChapter
              /\ Cardinality(SectionRange(k, j)) >= 3

\* The saved story the archive finds for an id: savedStories.find.
FoundStory(id) ==
    savedStories[SetMin({k \in 1..Len(savedStories) : savedStories[k].id = id})]

\* C17: the record a save puts in the archive holds the history, the
\* characters, the statistics and the game mode of that moment, and its
\* pagination is the book of that moment; the records of the archive do not
\* change; loading a record sets the four to the values of the record, and
\* the book to the pagination of its history in its mode.
SaveThenLoadRestores ==
    [][/\ handleSaveStory =>
              LET saved == savedStories'[1]
              IN  /\ saved.history = storyHistory
                  /\ saved.characters = characters
                  /\ saved.statsHistory = statsHistory
                  /\ saved.gameMode = gameMode
                  /\ Paginate(saved.history, saved.gameMode) = pages
                  /\ \A k \in 1..Len(savedStories) : savedStories[k].id # saved.id
       /\ Len(savedStories') >= Len(savedStories)
       /\ \A k \in 1..Len(savedStories) :
              savedStories'[k + Len(savedStories') - Len(savedStories)] = savedStories[k]
       /\ \A id \in {savedStories[k].id : k \in 1..Len(savedStories)} :
              handleLoadStory(id) =>
                  LET saved == FoundStory(id)
                  IN  /\ storyHistory' = saved.history
                      /\ characters' = saved.characters
                      /\ statsHistory' = saved.statsHistory
                      /\ gameMode' = saved.gameMode
                      /\ pages' = Paginate(saved.history, saved.gameMode)]_vars

\* C17, its case: a saved LINEAR story is open again after a story of the
\* other mode was started in between.
LinearStoryLoadedAgain ==
    /\ currentView = "GAME"
    /\ issued >= 2
    /\ \E k \in 1..Len(savedStories) :
          /\ savedStories[k].gameMode = "LINEAR"
          /\ gameMode = "LINEAR"
          /\ storyHistory = savedStories[k].history
          /\ characters = savedStories[k].characters
          /\ statsHistory = savedStories[k].statsHistory

\* C18: the pages of the open book are the pagination of its history in its
\* game mode, whatever was paginated before and wherever the navigator is.
PagesFollowHistoryAndMode ==
    currentView = "GAME" => pages = Paginate(EffectiveHistory(storyHistory), gameMode)

\* C18, its case: a book opened on a saved story, after other stories were
\* paginated, with the navigator off the first spread.
PaginatedAgainAfterLoad ==
    /\ currentView = "GAME"
    /\ issued >= 2
    /\ currentPageIndex > 0
    /\ \E k \in 1..Len(savedStories) :
          /\ storyHistory = savedStories[k].history
          /\ gameMode = savedStories[k].gameMode
    /\ Len(pages) > 2

\* The positions of the updates u that name `name`.
Naming(u, name) == {i \in 1..Len(u) : "name" \in DOMAIN u[i] /\ u[i].name = name}

\* The update supplies a name, a role and an affinity.
Supplies(update) == {"name", "role", "affinity"} \subseteq DOMAIN update

\* The entry `base` with the fields that the updates u supply for `name` at
\* the positions after `from` written over it, a later update over an earlier.
Overwritten(base, u, name, from) ==
    LET over   == {i \in Naming(u, name) : i > from}
        fields == DOMAIN base \cup UNION {DOMAIN u[i] : i \in over}
    IN  [f \in fields |->
            LET giving == {i \in over : f \in DOMAIN u[i]}
            IN  IF giving = {} THEN base[f] ELSE u[SetMax(giving)][f]]

\* The positions of the updates u that add an entry to the collection c: for
\* a name that c lacks, the first update that names it and supplies the three.
Adding(c, u) ==
    {i \in 1..Len(u) :
        /\ Supplies(u[i])
        /\ \A k \in 1..Len(c) : c[k].name # u[i].name
        /\ \A j \in Naming(u, u[i].name) : j < i => ~Supplies(u[j])}

\* The collection the claim describes for the collection c and the updates u.
Merged(c, u) ==
    LET adding == Adding(c, u)
        nth(n) == CHOOSE i \in adding : Cardinality({j \in adding : j < i}) = n - 1
    IN  [k \in 1..Len(c) |-> Overwritten(c[k], u, c[k].name, 0)]
        \o [n \in 1..Cardinality(adding) |->
               Overwritten(u[nth(n)], u, u[nth(n)].name, nth(n))]

\* C12: the collection after an answer is the one before it with, for every
\* entry, the fields the updates that name it supply written over it in the
\* order of the updates, followed by the entries of the updates that supply
\* name, role and affinity for a name not yet there; the other updates are
\* dropped, and the entries keep their order.
UpdatesMergeInOrder ==
    [][\A i \in 1..Len(inflight) : \A data \in CharResponses :
          ChoiceResolve(i, data) =>
              characters' = Merged(characters, data.characterUpdates)]_vars

\* C12, its case: the answer held an update that was dropped and an update
\* that gave an entry a new affinity and left its role and status alone.
UpdateDroppedAndEntryMerged ==
    /\ inflight = <<>>
    /\ Len(storyHistory) = 2
    /\ LET u == storyHistory[2].characterUpdates
       IN  /\ \E i \in 1..Len(u) :
                 /\ "name" \in DOMAIN u[i] /\ ~Supplies(u[i])
                 /\ \A k \in 1..Len(characters) : characters[k].name # u[i].name
           /\ \E i \in 1..Len(u) : \E k \in 1..Len(characters) :
                 /\ DOMAIN u[i] = {"name", "affinity"}
                 /\ characters[k].name = u[i].name
                 /\ characters[k].affinity = u[i].affinity
                 /\ characters[k].role = "hero"
                 /\ characters[k].status = "well"

\* C13: generateWithRetry makes at most retries+1 calls of generateContent,
\* the wait before the k-th retry is initialDelay doubled k-1 times, and the
\* function returns or throws in the end.
RetryBoundedAndBackingOff ==
    /\ [](\A i \in 1..Len(inflight) :
             /\ issued <= inflight[i].retries + 1
             /\ \A k \in 1..Len(inflight[i].waited) :
                    inflight[i].waited[k] = inflight[i].initialDelay * 2 ^ (k - 1)
             /\ \A t \in 1..Len(timers) :
                    timers[t] = inflight[i].initialDelay * 2 ^ Len(inflight[i].waited))
    /\ <>(\A i \in 1..Len(inflight) : inflight[i].outcome \in {"returned", "thrown"})

\* C13, its case: with the defaults, the sixth call has failed after the
\* waits of 2000, 4000, 8000, 16000 and 32000 ms.
SixCallsFiveWaits ==
    /\ Len(inflight) = 1
    /\ inflight[1].kind = "generate"
    /\ inflight[1].retries = DefaultRetries
    /\ inflight[1].outcome = "thrown"
    /\ issued = DefaultRetries + 1
    /\ inflight[1].waited = <<2000, 4000, 8000, 16000, 32000>>

\* The error is a server error of the 5xx range.
ServiceUnavailable(e) == e.status \in 500..599 \/ e.code \in 500..599

\* C14: a failed call is retried if and only if its error is a rate limit or
\* a 5xx server error and attempts remain; any other failure is thrown to
\* the caller at once, with no wait set.
RetriesExactlyTheRetryable ==
    [][\A i \in 1..Len(inflight) : \A e \in ApiErrors :
          generateContentThrows(i, e) =>
              LET retried == inflight'[i].outcome = "waiting"
              IN  /\ retried <=> /\ isQuota(e) \/ ServiceUnavailable(e)
                                 /\ inflight[i].attempt < inflight[i].retries
                  /\ ~retried => /\ inflight'[i].outcome = "thrown"
                                 /\ inflight'[i].thrown = e
                                 /\ timers' = timers]_vars

\* The positions in `pages` of the illustration pages.
VisualPages == {p \in 1..Len(pages) : pages[p].type = "FULL_IMAGE"}

\* C21: a fragment has an illustration page if and only if it has an
\* illustration prompt and is the first fragment or the mode is INTERACTIVE;
\* it has one such page at most, the page is the first page pushed for the
\* fragment, has no content, carries the fragment's chapter title and prompt,
\* and every illustration page is the page of some fragment. In LINEAR mode
\* the book has one illustration page at most, and it is page 1.
IllustrationPageRule ==
    currentView = "GAME" =>
        /\ \A k \in 1..Len(storyHistory) :
              LET node   == storyHistory[k]
                  vis    == VisualPages \cap NodeRange(k)
                  wanted == /\ node.backgroundImagePrompt # <<>>
                            /\ (k = 1 \/ gameMode = "INTERACTIVE")
              IN  /\ wanted <=> vis # {}
                  /\ Cardinality(vis) <= 1
                  /\ \A p \in vis :
                        /\ p = SetMin(NodeRange(k))
                        /\ pages[p].content = <<>>
                        /\ pages[p].imagePrompt = node.backgroundImagePrompt
                        /\ pages[p].chapterTitle = node.chapterTitle
                        /\ \A q \in NodeRange(k) \ {p} : pages[q].type = "TEXT"
        /\ VisualPages \subseteq UNION {NodeRange(k) : k \in 1..Len(storyHistory)}
        /\ gameMode = "LINEAR" => VisualPages \subseteq {1}

\* C21, its case: a LINEAR book of two fragments that both have a prompt; the
\* first has its illustration page before its text pages, the second has none.
OneIllustrationInLinearBook ==
    /\ currentView = "GAME"
    /\ gameMode = "LINEAR"
    /\ Len(storyHistory) = 2
    /\ \A k \in 1..2 : storyHistory[k].backgroundImagePrompt # <<>>
    /\ VisualPages = {1}
    /\ Cardinality(NodeRange(1)) >= 2
    /\ NodeRange(2) # {}

\* The pieces the chapter markers cut the content in: the text before the
\* first marker, and the text that follows each marker.
MarkerPieces(content) == SplitMarkers(<<"\n">> \o content)

\* The title and the body of the piece that follows a chapter marker: the
\* marker line and the text after it.
ChapterOf(piece) ==
    LET nl == IndexOf(piece, "\n")
    IN  [title |-> StripHashes(Trim(IF nl = 0 THEN piece ELSE SubSeq(piece, 1, nl - 1))),
         body  |-> IF nl = 0 THEN <<>> ELSE Trim(SubSeq(piece, nl + 1, Len(piece)))]

\* C22: the sections of a fragment are, in source order, one new-chapter
\* section for each chapter marker, with the marker line as title and the
\* trimmed remainder as body, preceded by one continuation section titled as
\* the fragment if and only if the text before the first marker is not blank.
SplitterReturnsMarkedSections ==
    currentView = "GAME" =>
        \A k \in 1..Len(storyHistory) :
            LET node   == storyHistory[k]
                pieces == MarkerPieces(node.content)
                secs   == Sections(node)
                lead   == Trim(pieces[1]) # <<>>
                off    == IF lead THEN 1 ELSE 0
            IN  /\ Len(secs) = off + Len(pieces) - 1
                /\ lead => /\ ~secs[1].isNewChapter
                           /\ secs[1].title = node.chapterTitle
                           /\ Trim(secs[1].body) = Trim(pieces[1])
                /\ \A n \in 2..Len(pieces) :
                       /\ secs[off + n - 1].isNewChapter
                       /\ secs[off + n - 1].title = ChapterOf(pieces[n]).title
                       /\ secs[off + n - 1].body = ChapterOf(pieces[n]).body

\* The positions in `pages` of the filler pages.
FillerPages == {p \in 1..Len(pages) : IsFiller(pages[p])}

\* Every fragment of the history has one page, and that is a text page.
OnePageFragments ==
    \A k \in 1..Len(storyHistory) :
        Cardinality(NodeRange(k)) = 1 /\ VisualPages \cap NodeRange(k) = {}

\* C23: the book is the pages of the fragments followed by a filler page if
\* and only if those pages are odd in number; there is one filler page at
\* most, it is the last page, and it has no content, an empty chapter title,
\* no choices and no chapter-start flag. A history of n one-page fragments
\* without illustration pages gives n pages for an even n and n+1 for an odd n.
FillerIffOddPageCount ==
    currentView = "GAME" =>
        LET fromFragments == PagesUpTo(Len(storyHistory))
            n             == Len(storyHistory)
        IN  /\ FillerPages # {} <=> Len(fromFragments) % 2 = 1
            /\ FillerPages \subseteq {Len(pages)}
            /\ SubSeq(pages, 1, Len(fromFragments)) = fromFragments
            /\ Len(pages) = Len(fromFragments) + Cardinality(FillerPages)
            /\ \A p \in FillerPages :
                  /\ pages[p].content = <<>>
                  /\ pages[p].chapterTitle = <<>>
                  /\ ~HasChoices(pages[p])
                  /\ ~StartsChapter(p)
            /\ OnePageFragments => Len(pages) = IF n % 2 = 0 THEN n ELSE n + 1

\* C23, its case: three one-page fragments without illustration pages make a
\* book of four pages, the last of them the filler page.
ThreeFragmentsFourPages ==
    /\ currentView = "GAME"
    /\ Len(storyHistory) = 3
    /\ OnePageFragments
    /\ Len(pages) = 4
    /\ FillerPages = {4}

\* The step leaves the book open on a history longer than the one before.
HistoryGrows == currentView' = "GAME" /\ Len(storyHistory') > Len(storyHistory)

GrownBookOffersChoices ==
    [][(/\ HistoryGrows
        /\ gameMode' = "INTERACTIVE"
        /\ Len(storyHistory'[Len(storyHistory')].choices) > 0
        /\ ~isLoading'
        /\ inflight' = <<>>) =>
          \E q \in {Len(pages') - 1, Len(pages')} \cap {currentPageIndex' + 1, currentPageIndex' + 2} :
              /\ q >= 1
              /\ HasChoices(pages'[q])
              /\ pages'[q].choices = storyHistory'[Len(storyHistory')].choices]_vars

\* C26: from an empty collection on, whatever updates the answers carry, no
\* two entries of the collection have the same name, and the number of
\* entries never decreases.
NamesStayUnique ==
    /\ [](\A i, j \in 1..Len(characters) : i # j => characters[i].name # characters[j].name)
    /\ [][Len(characters') >= Len(characters)]_vars

\* C26, its case: after three answers the collection holds two characters,
\* one of them named twice in one answer with all its fields, and one given
\* with all its fields again in a later answer than the one that added it.
TwoCharactersNamedAgain ==
    /\ Len(storyHistory) = 4
    /\ inflight = <<>>
    /\ Len(characters) = 2
    /\ \E k \in 2..4 :
          LET u == storyHistory[k].characterUpdates
          IN  \E a, b \in 1..Len(u) : a < b /\ Supplies(u[a]) /\ Supplies(u[b])
                                      /\ u[a].name = u[b].name
    /\ \E k, l \in 2..4 :
          /\ k < l
          /\ \E a \in 1..Len(storyHistory[k].characterUpdates) :
                \E b \in 1..Len(storyHistory[l].characterUpdates) :
                    LET x == storyHistory[k].characterUpdates[a]
                        y == storyHistory[l].characterUpdates[b]
                    IN  Supplies(x) /\ Supplies(y) /\ x.name = y.name /\ x.role # y.role

\* C27: a call whose attempts all fail with an error that is retried throws,
\* at its last attempt, the error of that attempt, after retries+1 calls of
\* generateContent; the error of the throw that follows the loop is thrown by
\* no call that has made an attempt.
LastErrorIsThrown ==
    /\ [][\A i \in 1..Len(inflight) :
             /\ \A e \in ApiErrors :
                   (/\ generateContentThrows(i, e)
                    /\ isQuota(e) \/ isServer(e)
                    /\ inflight[i].attempt = inflight[i].retries) =>
                       /\ inflight'[i].outcome = "thrown"
                       /\ inflight'[i].thrown = e
                       /\ issued' = inflight[i].retries + 1
                       /\ Len(inflight[i].waited) = inflight[i].retries
             /\ retriesExhausted(i) => issued = 0]_vars
    /\ [](\A i \in 1..Len(inflight) :
             (inflight[i].outcome = "thrown" /\ issued >= 1) =>
                 inflight[i].thrown \in ApiErrors \ {MaxRetriesError})

\* C27, its case: with the defaults, five waits were made and the sixth call
\* failed with an error that is retried; that error is the one thrown.
SixthErrorThrown ==
    /\ Len(inflight) = 1
    /\ inflight[1].retries = DefaultRetries
    /\ inflight[1].initialDelay = InitialDelay
    /\ Len(inflight[1].waited) = DefaultRetries
    /\ inflight[1].outcome = "thrown"
    /\ isQuota(inflight[1].thrown) \/ isServer(inflight[1].thrown)

\* The contents of the batches of r that answered with a text, in batch order.
BatchContents(r) ==
    LET answered == SelectSeq(r, LAMBDA x : x.ok /\ "data" \in DOMAIN x)
    IN  [k \in 1..Len(answered) |-> answered[k].data.content]

RECURSIVE JoinBlank(_)
\* The texts cs joined by blank lines.
JoinBlank(cs) ==
    IF Len(cs) = 0 THEN <<>>
    ELSE IF Len(cs) = 1 THEN cs[1]
    ELSE JoinBlank(SubSeq(cs, 1, Len(cs) - 1)) \o <<"\n", "\n">> \o cs[Len(cs)]

\* The texts cs from the first one that is not empty on.
FromFirstText(cs) ==
    LET full == {k \in 1..Len(cs) : cs[k] # <<>>}
    IN  IF full = {} THEN <<>> ELSE SubSeq(cs, SetMin(full), Len(cs))

\* A batch of r failed while no content had been accumulated.
FailedWithoutContent(r) ==
    \E k \in 1..Len(r) :
        ~r[k].ok /\ FromFirstText(BatchContents(SubSeq(r, 1, k - 1))) = <<>>

\* C28: startStory in LINEAR mode throws if and only if a batch fails while
\* no content is accumulated; otherwise every batch is attempted, and the
\* fragment returned has no choices and, as content, the contents of the
\* batches that answered, in batch order and joined by blank lines from the
\* first content that is not empty on.
BatchesJoinedFromFirstText ==
    /\ [](\A i \in 1..Len(inflight) :
             LET r == inflight[i].results
             IN  /\ inflight[i].acc.thrown <=> FailedWithoutContent(r)
                 /\ ~inflight[i].acc.thrown =>
                        inflight[i].acc.fullStoryContent =
                            JoinBlank(FromFirstText(BatchContents(r))))
    /\ [][\A i \in 1..Len(inflight) :
             /\ startStoryReturns(i) =>
                   LET finalNode == timers'[Len(timers')]
                   IN  /\ Len(inflight[i].results) = TotalBatches(inflight[i].storyLength)
                       /\ finalNode.content = inflight[i].acc.fullStoryContent
                       /\ finalNode.choices = <<>>
             /\ \A is429 \in BOOLEAN :
                   startStoryThrows(i, is429) => FailedWithoutContent(inflight[i].results)]_vars

\* C28 as stated: the content accumulated is the contents of the batches that
\* answered, in batch order, joined by blank lines.
BatchesJoinedByBlankLines ==
    \A i \in 1..Len(inflight) :
        ~inflight[i].acc.thrown =>
            inflight[i].acc.fullStoryContent = JoinBlank(BatchContents(inflight[i].results))

\* C28, its case: the second of three batches failed after the first had
\* given content; the failure was swallowed, the third batch was attempted,
\* and the content is that of the first and the third.
FailedBatchSwallowed ==
    /\ Len(inflight) = 1
    /\ inflight[1].results = << Ok(DataScene), Failed, Ok(DataEnding) >>
    /\ ~inflight[1].acc.thrown
    /\ inflight[1].acc.fullStoryContent =
           DataScene.content \o <<"\n", "\n">> \o DataEnding.content

\* C29: in the GAME view the history is not empty, so that the book has a
\* current fragment, and in every view the history of the statistics is as
\* long as the history of the story; the stories of the archive are such too.
GameHasCurrentFragment ==
    /\ currentView = "GAME" => Len(storyHistory) > 0
    /\ Len(statsHistory) = Len(storyHistory)
    /\ \A k \in 1..Len(savedStories) :
          /\ Len(savedStories[k].history) > 0
          /\ Len(savedStories[k].statsHistory) = Len(savedStories[k].history)

\* C29, its case: a saved story was loaded into the book while a choice of
\* another story was pending, and the answer to that choice has joined it.
LateAnswerJoinedLoadedStory ==
    /\ currentView = "GAME"
    /\ inflight = <<>>
    /\ \E k \in 1..Len(savedStories) :
          /\ Len(storyHistory) = Len(savedStories[k].history) + 1
          /\ SubSeq(storyHistory, 1, Len(storyHistory) - 1) = savedStories[k].history
          /\ savedStories[k].gameMode = "LINEAR"
    /\ Len(statsHistory) = Len(storyHistory)

\* C30: the ids of the fragments of the history are pairwise distinct, and
\* so are the ids of the pages of the book.
IdsPairwiseDistinct ==
    /\ \A i, j \in 1..Len(storyHistory) :
          i # j => storyHistory[i].id # storyHistory[j].id
    /\ currentView = "GAME" =>
          \A p, q \in 1..Len(pages) : p # q => pages[p].id # pages[q].id

====
